---- MODULE Spec2Model ----
(***************************************************************************)
(* The host binding objects of the cover tree: pygoko's CoverTree          *)
(* (src/pygoko/src/tree.rs) and pygrandma's PyGrandma                      *)
(* (src/pygrandma/src/tree.rs).  One object is modelled; `binding` says    *)
(* which of the two classes it is.  Every public method is one action.     *)
(* The core library the methods call (builder, writer, reader, traversal)  *)
(* is not part of the binding sources; it is modelled from the design      *)
(* document, on one-dimensional integer points.                            *)
(***************************************************************************)
EXTENDS Integers, Sequences, FiniteSets, TLC

VARIABLES binding, builder, temp_point_cloud, writer, reader, metric,
          handles, last, alive, next_writer, probe, keep

vars == <<binding, builder, temp_point_cloud, writer, reader, metric,
          handles, last, alive, next_writer, probe, keep>>

\* binding           which class the object is
\* builder .. metric the object's fields
\* handles           the handles the host holds, in the order it got them
\* last              the last call: method, argument, how it ended, its value
\* alive             the process is running
\* next_writer       the identity the next writer built will get
\* probe             the first dry_insert since the last fit: point and path
\* keep              how many handles the host keeps alive at a time

(***************************************************************************)
(* Bounds of the model.                                                    *)
(***************************************************************************)
\* successful builds per run (each build allocates a new writer identity)
MaxFits == 2
\* handles (PyLayer, PyNode, IterLayers, tracker) the host keeps alive
MaxHandles == 1

(***************************************************************************)
(* Rust's Option and Result.                                               *)
(***************************************************************************)
None == <<>>
Some(x) == <<x>>
is_some(o) == o # <<>>
is_none(o) == o = <<>>
unwrap(o) == o[1]
Ok(v) == [ok |-> TRUE, val |-> v]
Err(e) == [ok |-> FALSE, val |-> e]

(***************************************************************************)
(* The metric: L2 on one-dimensional integer points.                       *)
(***************************************************************************)
Abs(x) == IF x < 0 THEN -x ELSE x
distance(a, b) == Abs(a - b)

RECURSIVE Pow(_, _)
Pow(b, s) == IF s <= 0 THEN 1 ELSE b * Pow(b, s - 1)

SetMin(S) == CHOOSE x \in S : \A y \in S : x <= y

(***************************************************************************)
(* Point cloud: the points, one label per point.  Point indexes start at   *)
(* 0, as in the code; point i is points[i + 1].                            *)
(***************************************************************************)
new_simple(data, labels) == [points |-> data, labels |-> labels]
dim(cloud) == 1
len(cloud) == Len(cloud.points)
point(cloud, i) ==
    IF i \in 0..(len(cloud) - 1) THEN Ok(cloud.points[i + 1]) ELSE Err("NotFound")

(***************************************************************************)
(* CoverTreeBuilder: the configuration and the construction algorithm.     *)
(***************************************************************************)
CoverTreeBuilder_new ==
    [scale_base |-> 2, leaf_cutoff |-> 1, min_res_index |-> 0, use_singletons |-> TRUE]

\* The coarsest scale: the least scale index whose radius covers the whole
\* cloud from the root's representative, point 0.
RECURSIVE root_scale(_, _, _)
root_scale(pts, base, s) ==
    IF \A i \in 1..Len(pts) : distance(pts[1], pts[i]) <= Pow(base, s)
    THEN s
    ELSE root_scale(pts, base, s + 1)

\* Separation: in index order, a member farther than the radius from every
\* centre chosen so far becomes a centre itself.
RECURSIVE split(_, _, _, _)
split(pts, rest, chosen, radius) ==
    IF rest = {} THEN chosen
    ELSE LET i == SetMin(rest)
         IN  IF \E c \in chosen : distance(pts[i + 1], pts[c + 1]) < radius
             THEN split(pts, rest \ {i}, chosen, radius)
             ELSE split(pts, rest \ {i}, chosen \cup {i}, radius)

\* Covering: a member goes to its nearest centre, the lowest index on a tie.
nearest(pts, m, centres) ==
    CHOOSE c \in centres : \A d \in centres :
        \/ distance(pts[m + 1], pts[c + 1]) < distance(pts[m + 1], pts[d + 1])
        \/ /\ distance(pts[m + 1], pts[c + 1]) = distance(pts[m + 1], pts[d + 1])
           /\ c <= d

\* The nodes of the subtree under node (s, c) covering the members M.
RECURSIVE subtree(_, _, _, _, _)
subtree(pts, cfg, s, c, M) ==
    LET leaf    == Cardinality(M) <= cfg.leaf_cutoff \/ s - 1 < cfg.min_res_index
        centres == split(pts, M \ {c}, {c}, Pow(cfg.scale_base, s - 1))
        node    == [address  |-> <<s, c>>,
                    members  |-> M,
                    children |-> IF leaf THEN {} ELSE {<<s - 1, k>> : k \in centres}]
    IN  {node} \cup
        (IF leaf THEN {}
         ELSE UNION {subtree(pts, cfg, s - 1, k,
                             {m \in M : nearest(pts, m, centres) = k}) : k \in centres})

\* build(point_cloud) -> Writer; `id` is the identity of the new writer.
build(cfg, cloud, id) ==
    IF cfg.scale_base <= 1 \/ cfg.leaf_cutoff < 1 THEN Err("ConfigurationError")
    ELSE IF len(cloud) = 0 \/ Len(cloud.labels) # len(cloud) THEN Err("DataError")
    ELSE LET top == root_scale(cloud.points, cfg.scale_base, cfg.min_res_index)
         IN  Ok([id         |-> id,
                 parameters |-> [scale_base     |-> cfg.scale_base,
                                 leaf_cutoff    |-> cfg.leaf_cutoff,
                                 min_res_index  |-> cfg.min_res_index,
                                 use_singletons |-> cfg.use_singletons,
                                 point_cloud    |-> cloud],
                 root       |-> <<top, 0>>,
                 nodes      |-> subtree(cloud.points, cfg, top, 0,
                                        0..(len(cloud) - 1)),
                 summaries  |-> FALSE,
                 plugins    |-> {},
                 log        |-> <<<<"build">>>>])

(***************************************************************************)
(* Writer / Reader.  `log` is the history of the writer's mutations; a     *)
(* reader is the frozen copy of the writer's state at the time of the      *)
(* call.                                                                   *)
(***************************************************************************)
generate_summaries(w) ==
    [w EXCEPT !.summaries = TRUE, !.log = Append(@, <<"generate_summaries">>)]

add_plugin(w, kind) ==
    IF w.summaries
    THEN [w EXCEPT !.plugins = @ \cup {kind}, !.log = Append(@, <<"add_plugin", kind>>)]
    ELSE [w EXCEPT !.log = Append(@, <<"add_plugin failed", kind>>)]

writer_reader(w) ==
    [writer_id  |-> w.id,
     parameters |-> w.parameters,
     root       |-> w.root,
     nodes      |-> w.nodes,
     summaries  |-> w.summaries,
     plugins    |-> w.plugins,
     log        |-> w.log]

(***************************************************************************)
(* Reader queries.                                                         *)
(***************************************************************************)
scales(r) == {n.address[1] : n \in r.nodes}
scale_range(r) == [start |-> SetMin(scales(r)), end |-> r.root[1] + 1]
root_address(r) == r.root

\* get_node_and(address, |_| true)
get_node_and(r, address) ==
    IF \E n \in r.nodes : n.address = address THEN Some(TRUE) ELSE None

get_node(r, address) == CHOOSE n \in r.nodes : n.address = address

\* The scale indexes of the layers, coarsest first.
RECURSIVE descending(_)
descending(S) ==
    IF S = {} THEN <<>>
    ELSE LET m == CHOOSE x \in S : \A y \in S : y <= x
         IN  <<m>> \o descending(S \ {m})

reader_layers(r) == descending(scales(r))

\* dry_insert: the path a point would follow if inserted, from the root down
\* to the node where no child's radius contains it.
RECURSIVE descend(_, _, _)
descend(r, p, address) ==
    LET pts    == r.parameters.point_cloud.points
        node   == get_node(r, address)
        here   == <<distance(p, pts[address[2] + 1]), address>>
        radius == Pow(r.parameters.scale_base, address[1] - 1)
        near   == {a \in node.children : distance(p, pts[a[2] + 1]) <= radius}
        best   == CHOOSE a \in near : \A b \in near :
                     \/ distance(p, pts[a[2] + 1]) < distance(p, pts[b[2] + 1])
                     \/ /\ distance(p, pts[a[2] + 1]) = distance(p, pts[b[2] + 1])
                        /\ a[2] <= b[2]
    IN  IF near = {} THEN <<here>> ELSE <<here>> \o descend(r, p, best)

reader_dry_insert(r, p) == Ok(descend(r, p, r.root))

\* knn: the k nearest points, ascending distance, ascending index on a tie.
RECURSIVE nearest_k(_, _, _, _)
nearest_k(pts, p, cand, k) ==
    IF k = 0 \/ cand = {} THEN <<>>
    ELSE LET i == CHOOSE i \in cand : \A j \in cand :
                     \/ distance(p, pts[i + 1]) < distance(p, pts[j + 1])
                     \/ /\ distance(p, pts[i + 1]) = distance(p, pts[j + 1])
                        /\ i <= j
         IN  <<<<distance(p, pts[i + 1]), i>>>> \o nearest_k(pts, p, cand \ {i}, k - 1)

reader_knn(r, p, k) ==
    Ok(nearest_k(r.parameters.point_cloud.points, p,
                 0..(len(r.parameters.point_cloud) - 1), k))

(***************************************************************************)
(* The configuration files load_yaml_config and fit_yaml read.             *)
(***************************************************************************)
YamlFiles == {"missing.yml", "cloud.yml", "bad_scale.yml"}

labeled_ram_from_yaml(file_name) ==
    IF file_name = "missing.yml" THEN Err("IoError")
    ELSE Ok(new_simple(<<3, 0>>, <<1, 1>>))

CoverTreeBuilder_from_yaml(file_name) ==
    IF file_name = "bad_scale.yml"
    THEN [CoverTreeBuilder_new EXCEPT !.scale_base = 1]
    ELSE CoverTreeBuilder_new

cover_tree_from_labeled_yaml(file_name, id) ==
    LET cloud == labeled_ram_from_yaml(file_name)
    IN  IF cloud.ok
        THEN build(CoverTreeBuilder_from_yaml(file_name), cloud.val, id)
        ELSE cloud

(***************************************************************************)
(* The host's arguments.  A numpy array is its contents and whether it is  *)
(* contiguous: as_slice() fails on an array that is not.                   *)
(***************************************************************************)
Array(contiguous, data) == [contiguous |-> contiguous, data |-> data]
as_slice(a) == IF a.contiguous THEN Ok(a.data) ELSE Err("NotContiguous")

FitData == {Array(TRUE, <<>>), Array(TRUE, <<0, 1, 3>>), Array(FALSE, <<0, 1, 3>>)}
FitLabels == {None, Some(Array(TRUE, <<0, 0, 0>>))}
QueryPoints == {Array(TRUE, 2), Array(FALSE, 2)}
ScaleBases == {1, 2}
Cutoffs == {1}
Resolutions == {0, 1}
Singletons == {TRUE}
MetricNames == {"L1"}
Addresses == {<<2, 0>>, <<1, 1>>}
ScaleIndexes == {1, 3}
PointIndexes == {0, 5}
Ks == {2}

(***************************************************************************)
(* The object.  A method is an operator from the object (and its           *)
(* arguments) to the object after the call, how the call ended and what it *)
(* returned.  A panic leaves the object as it was when the panic was       *)
(* raised.                                                                 *)
(***************************************************************************)
Self == [builder |-> builder, temp_point_cloud |-> temp_point_cloud,
         writer |-> writer, reader |-> reader, metric |-> metric]

Return(self, value) == [self |-> self, outcome |-> "Ok", value |-> value]
Panic(self, message) == [self |-> self, outcome |-> "Panic", value |-> message]

\* fn new()
new(b) ==
    /\ binding = b
    /\ builder = Some(CoverTreeBuilder_new)
    /\ temp_point_cloud = None
    /\ writer = None
    /\ reader = None
    /\ metric = "DefaultLabeledCloud<L2>"

(***************************************************************************)
(* Configuration setters.                                                  *)
(***************************************************************************)
set_scale_base_(self, x) ==
    IF is_some(self.builder)
    THEN Return([self EXCEPT !.builder = Some([unwrap(@) EXCEPT !.scale_base = x])], None)
    ELSE Panic(self, "Set too late")

set_leaf_cutoff_(self, x) ==
    IF is_some(self.builder)
    THEN Return([self EXCEPT !.builder = Some([unwrap(@) EXCEPT !.leaf_cutoff = x])], None)
    ELSE Panic(self, "Set too late")

set_min_res_index_(self, x) ==
    IF is_some(self.builder)
    THEN Return([self EXCEPT !.builder = Some([unwrap(@) EXCEPT !.min_res_index = x])], None)
    ELSE Panic(self, "Set too late")

set_use_singletons_(self, x) ==
    IF is_some(self.builder)
    THEN Return([self EXCEPT !.builder = Some([unwrap(@) EXCEPT !.use_singletons = x])], None)
    ELSE Panic(self, "Set too late")

set_metric_(self, metric_name) == Return([self EXCEPT !.metric = metric_name], None)

\* pygoko only
load_yaml_config_(self, file_name) ==
    LET point_cloud == labeled_ram_from_yaml(file_name)
    IN  IF ~point_cloud.ok THEN Panic(self, point_cloud.val)
        ELSE Return([self EXCEPT !.builder = Some(CoverTreeBuilder_from_yaml(file_name)),
                                 !.temp_point_cloud = Some(point_cloud.val)],
                    None)

(***************************************************************************)
(* fit.                                                                    *)
(***************************************************************************)
\* vec![0; len]
zeros(n) == [i \in 1..n |-> 0]

\* fit_writer_ops with the first plugin attached before the summaries exist.
fit_writer_ops_plugin_first(w) ==
    LET w1 == add_plugin(w, "DiagGaussian")
        w2 == generate_summaries(w1)
        w3 == add_plugin(w2, "Dirichlet")
    IN  [writer |-> w3, reader |-> writer_reader(w3)]

\* fit_writer_ops with the reader taken before the second plugin is attached.
fit_writer_ops_early_reader(w) ==
    LET w1 == generate_summaries(w)
        w2 == add_plugin(w1, "DiagGaussian")
        w3 == add_plugin(w2, "Dirichlet")
    IN  [writer |-> w3, reader |-> writer_reader(w2)]

\* The writer operations of fit, on the writer just built: the writer the
\* object keeps and the reader it stores.
fit_writer_ops(w) ==
    LET w1 == generate_summaries(w)
        w2 == add_plugin(w1, "DiagGaussian")
        w3 == add_plugin(w2, "Dirichlet")
    IN  [writer |-> w3, reader |-> writer_reader(w3)]

\* fit_build that drops the old writer and reader before it builds.
fit_build_clears_first(self, point_cloud, id) ==
    LET builder_ == self.builder
        taken    == [self EXCEPT !.builder = None, !.writer = None, !.reader = None]
    IN  IF is_none(builder_) THEN Panic(taken, "unwrap on None")
        ELSE LET built == build(unwrap(builder_), point_cloud, id)
             IN  IF ~built.ok THEN Panic(taken, built.val)
                 ELSE LET ops == fit_writer_ops(built.val)
                      IN  Return([taken EXCEPT !.writer = Some(ops.writer),
                                               !.reader = Some(ops.reader)],
                                 None)

\* fit_build that borrows the builder instead of taking it.
fit_build_keeps_builder(self, point_cloud, id) ==
    IF is_none(self.builder) THEN Panic(self, "unwrap on None")
    ELSE LET built == build(unwrap(self.builder), point_cloud, id)
         IN  IF ~built.ok THEN Panic(self, built.val)
             ELSE LET ops == fit_writer_ops(built.val)
                  IN  Return([self EXCEPT !.writer = Some(ops.writer),
                                          !.reader = Some(ops.reader)],
                             None)

\* From the taking of the builder to the end of fit.
fit_build_restores_builder(self, point_cloud, id) ==
    LET builder_ == self.builder
        taken    == [self EXCEPT !.builder = None]
    IN  IF is_none(builder_) THEN Panic(taken, "unwrap on None")
        ELSE LET built == build(unwrap(builder_), point_cloud, id)
             IN  IF ~built.ok THEN Panic(self, built.val)
                 ELSE LET ops == fit_writer_ops(built.val)
                      IN  Return([taken EXCEPT !.writer = Some(ops.writer),
                                               !.reader = Some(ops.reader)],
                                 None)

fit_build(self, point_cloud, id) ==
    LET builder_ == self.builder
        taken    == [self EXCEPT !.builder = None]
    IN  IF is_none(builder_) THEN Panic(taken, "unwrap on None")
        ELSE LET built == build(unwrap(builder_), point_cloud, id)
             IN  IF ~built.ok THEN Panic(taken, built.val)
                 ELSE LET ops == fit_writer_ops(built.val)
                      IN  Return([taken EXCEPT !.writer = Some(ops.writer),
                                               !.reader = Some(ops.reader)],
                                 None)

\* pygoko: fit(data: Option, labels: Option)
CoverTree_fit_takes_first(self, data, labels, id) ==
    IF is_some(data)
    THEN IF is_some(labels) /\ ~as_slice(unwrap(labels)).ok
         THEN Panic(self, as_slice(unwrap(labels)).val)
         ELSE IF ~as_slice(unwrap(data)).ok
         THEN Panic(self, as_slice(unwrap(data)).val)
         ELSE LET my_labels == IF is_some(labels)
                               THEN as_slice(unwrap(labels)).val
                               ELSE zeros(Len(unwrap(data).data))
              IN  fit_build(self, new_simple(as_slice(unwrap(data)).val, my_labels), id)
    ELSE IF is_some(self.temp_point_cloud)
         THEN fit_build([self EXCEPT !.temp_point_cloud = None],
                        unwrap(self.temp_point_cloud), id)
         ELSE Panic([self EXCEPT !.builder = None], "No known point_cloud")

CoverTree_fit_(self, data, labels, id) ==
    IF is_some(data)
    THEN IF is_some(labels) /\ ~as_slice(unwrap(labels)).ok
         THEN Panic(self, as_slice(unwrap(labels)).val)
         ELSE IF ~as_slice(unwrap(data)).ok
         THEN Panic(self, as_slice(unwrap(data)).val)
         ELSE LET my_labels == IF is_some(labels)
                               THEN as_slice(unwrap(labels)).val
                               ELSE zeros(Len(unwrap(data).data))
              IN  fit_build(self, new_simple(as_slice(unwrap(data)).val, my_labels), id)
    ELSE IF is_some(self.temp_point_cloud)
         THEN fit_build([self EXCEPT !.temp_point_cloud = None],
                        unwrap(self.temp_point_cloud), id)
         ELSE Panic(self, "No known point_cloud")

\* pygrandma: fit(data, labels: Option)
PyGrandma_fit_(self, data, labels, id) ==
    IF is_some(labels) /\ ~as_slice(unwrap(labels)).ok
    THEN Panic(self, as_slice(unwrap(labels)).val)
    ELSE IF ~as_slice(data).ok
    THEN Panic(self, as_slice(data).val)
    ELSE LET my_labels == IF is_some(labels)
                          THEN as_slice(unwrap(labels)).val
                          ELSE zeros(Len(data.data))
         IN  fit_build(self, new_simple(as_slice(data).val, my_labels), id)

\* pygrandma only
fit_yaml_keeps_old_writer(self, file_name, id) ==
    LET built == cover_tree_from_labeled_yaml(file_name, id)
    IN  IF ~built.ok THEN Panic(self, built.val)
        ELSE LET ops == fit_writer_ops(built.val)
             IN  Return([self EXCEPT !.reader = Some(ops.reader),
                                     !.builder = None],
                        None)

fit_yaml_(self, file_name, id) ==
    LET built == cover_tree_from_labeled_yaml(file_name, id)
    IN  IF ~built.ok THEN Panic(self, built.val)
        ELSE LET ops == fit_writer_ops(built.val)
             IN  Return([self EXCEPT !.reader = Some(ops.reader),
                                     !.writer = Some(ops.writer),
                                     !.builder = None],
                        None)

(***************************************************************************)
(* Queries.  The handles they return hold their own reference to the       *)
(* reader (`tree`) and to its parameters.                                  *)
(***************************************************************************)
data_point_(self, point_index) ==
    IF is_none(self.reader) THEN Panic(self, "unwrap on None")
    ELSE LET r == unwrap(self.reader)
             p == point(r.parameters.point_cloud, point_index)
         IN  Return(self, IF p.ok THEN Some(<<p.val>>) ELSE None)

top_scale_(self) ==
    Return(self, IF is_some(self.reader)
                 THEN Some(scale_range(unwrap(self.reader)).end - 1)
                 ELSE None)

bottom_scale_(self) ==
    Return(self, IF is_some(self.reader)
                 THEN Some(scale_range(unwrap(self.reader)).start)
                 ELSE None)

layers_starts_at_second(self) ==
    IF is_none(self.reader) THEN Panic(self, "unwrap on None")
    ELSE LET r == unwrap(self.reader)
         IN  Return(self, [kind          |-> "IterLayers",
                           parameters    |-> r.parameters,
                           tree          |-> r,
                           scale_indexes |-> reader_layers(r),
                           index         |-> 1])

layers_(self) ==
    IF is_none(self.reader) THEN Panic(self, "unwrap on None")
    ELSE LET r == unwrap(self.reader)
         IN  Return(self, [kind          |-> "IterLayers",
                           parameters    |-> r.parameters,
                           tree          |-> r,
                           scale_indexes |-> reader_layers(r),
                           index         |-> 0])

layer_(self, scale_index) ==
    IF is_none(self.reader) THEN Panic(self, "unwrap on None")
    ELSE LET r == unwrap(self.reader)
         IN  Return(self, [kind        |-> "PyLayer",
                           parameters  |-> r.parameters,
                           tree        |-> r,
                           scale_index |-> scale_index])

\* node that gives up its reader when the address names no node.
node_poisons(self, address) ==
    IF is_none(self.reader) THEN Panic(self, "unwrap on None")
    ELSE LET r == unwrap(self.reader)
         IN  IF is_none(get_node_and(r, address))
             THEN Panic([self EXCEPT !.reader = None], "unwrap on None")
             ELSE Return(self, [kind       |-> "PyNode",
                                parameters |-> r.parameters,
                                address    |-> address,
                                tree       |-> r])

node_(self, address) ==
    IF is_none(self.reader) THEN Panic(self, "unwrap on None")
    ELSE LET r == unwrap(self.reader)
         IN  IF is_none(get_node_and(r, address)) THEN Panic(self, "unwrap on None")
             ELSE Return(self, [kind       |-> "PyNode",
                                parameters |-> r.parameters,
                                address    |-> address,
                                tree       |-> r])

root_(self) ==
    IF is_none(self.reader) THEN Panic(self, "unwrap on None")
    ELSE node_(self, root_address(unwrap(self.reader)))

knn_(self, point_, k) ==
    IF is_none(self.reader) THEN Panic(self, "unwrap on None")
    ELSE IF ~as_slice(point_).ok THEN Panic(self, as_slice(point_).val)
    ELSE LET results == reader_knn(unwrap(self.reader), as_slice(point_).val, k)
         IN  IF results.ok THEN Return(self, results.val)
             ELSE Panic(self, results.val)

\* dry_insert that inserts: the object's reader afterwards is the tree over
\* the cloud with the point added.
dry_insert_inserts(self, point_) ==
    IF is_none(self.reader) THEN Panic(self, "unwrap on None")
    ELSE IF ~as_slice(point_).ok THEN Panic(self, as_slice(point_).val)
    ELSE LET r       == unwrap(self.reader)
             results == reader_dry_insert(r, as_slice(point_).val)
             cloud   == r.parameters.point_cloud
             grown   == build(r.parameters,
                              new_simple(Append(cloud.points, as_slice(point_).val),
                                         Append(cloud.labels, 0)),
                              r.writer_id)
         IN  Return([self EXCEPT !.reader = Some(writer_reader(fit_writer_ops(grown.val).writer))],
                    results.val)

dry_insert_(self, point_) ==
    IF is_none(self.reader) THEN Panic(self, "unwrap on None")
    ELSE IF ~as_slice(point_).ok THEN Panic(self, as_slice(point_).val)
    ELSE LET results == reader_dry_insert(unwrap(self.reader), as_slice(point_).val)
         IN  IF results.ok THEN Return(self, results.val)
             ELSE Panic(self, results.val)

\* BayesCategoricalTracker::new(prior_weight, observation_weight, size, reader)
BayesCategoricalTracker_new(prior_weight, observation_weight, size, r) ==
    [prior_weight |-> prior_weight, observation_weight |-> observation_weight,
     window_size |-> size, reader |-> r, state |-> "Accumulating"]

kl_div_dirichlet_(self, prior_weight, observation_weight, size) ==
    IF is_none(self.reader) THEN Panic(self, "unwrap on None")
    ELSE IF is_none(self.writer) THEN Panic(self, "unwrap on None")
    ELSE Return(self, [kind |-> "PyBayesCategoricalTracker",
                       hkl  |-> BayesCategoricalTracker_new(
                                    prior_weight, observation_weight, size,
                                    writer_reader(unwrap(self.writer))),
                       tree |-> unwrap(self.reader)])

\* DirichletBaseline: the trainer's configuration and the reader it samples.
DirichletBaseline_train(r, prior_weight, observation_weight, sequence_len, num_sequences, window_size) ==
    Ok([reader |-> r.writer_id, sequences |-> num_sequences, steps |-> sequence_len])

kl_div_dirichlet_basestats_(self, prior_weight, observation_weight, sequence_len, num_sequences, window_size) ==
    IF is_none(self.writer) THEN Panic(self, "unwrap on None")
    ELSE LET stats == DirichletBaseline_train(writer_reader(unwrap(self.writer)),
                          prior_weight, observation_weight, sequence_len,
                          num_sequences, window_size)
         IN  IF stats.ok THEN Return(self, stats.val)
             ELSE Panic(self, stats.val)

(***************************************************************************)
(* The actions: one per public method.  A call runs to completion before   *)
(* the next starts (the host's interpreter lock, and &self / &mut self).   *)
(* A panic inside a method either ends the process or reaches the host as  *)
(* an exception, depending on how the binding layer was built; both are    *)
(* allowed.                                                                *)
(***************************************************************************)
Call(op, arg, step) ==
    /\ alive
    /\ builder' = step.self.builder
    /\ temp_point_cloud' = step.self.temp_point_cloud
    /\ writer' = step.self.writer
    /\ reader' = step.self.reader
    /\ metric' = step.self.metric
    /\ last' = [op |-> op, arg |-> arg, outcome |-> step.outcome, value |-> step.value]
    /\ alive' \in (IF step.outcome = "Panic" THEN BOOLEAN ELSE {TRUE})
    /\ UNCHANGED <<binding, keep>>

\* A configuration call or a query that returns no handle.
Plain(op, arg, step) ==
    /\ Call(op, arg, step)
    /\ UNCHANGED <<handles, next_writer, probe>>

\* store_reader writing the new reader through the shared reference, so that
\* every handle sees it.
store_reader_in_place(hs, self) ==
    [i \in DOMAIN hs |-> [hs[i] EXCEPT !.tree = unwrap(self.reader)]]

\* self.reader = Some(Arc::new(reader)): the object's field gets a newly
\* allocated reference; the references the handles hold are other ones.
store_reader(hs, self) == hs

\* A call that builds a tree: a successful one allocates a writer.
Fit(op, arg, step) ==
    /\ step.outcome = "Ok" => next_writer <= MaxFits
    /\ Call(op, arg, step)
    /\ next_writer' = IF step.outcome = "Ok" THEN next_writer + 1 ELSE next_writer
    /\ probe' = None
    /\ handles' = IF step.outcome = "Ok" THEN store_reader(handles, step.self) ELSE handles

\* A query that returns a handle: the host keeps it, or drops it at once.
Handle(op, arg, step) ==
    /\ Call(op, arg, step)
    /\ handles' = IF step.outcome = "Ok" /\ Len(handles) < keep
                  THEN Append(handles, step.value)
                  ELSE handles
    /\ UNCHANGED <<next_writer, probe>>

set_scale_base == \E x \in ScaleBases : Plain("set_scale_base", None, set_scale_base_(Self, x))

set_leaf_cutoff ==
    /\ binding = "pygoko"
    /\ \E x \in Cutoffs : Plain("set_leaf_cutoff", None, set_leaf_cutoff_(Self, x))

set_cutoff ==
    /\ binding = "pygrandma"
    /\ \E x \in Cutoffs : Plain("set_cutoff", None, set_leaf_cutoff_(Self, x))

set_min_res_index ==
    /\ binding = "pygoko"
    /\ \E x \in Resolutions : Plain("set_min_res_index", None, set_min_res_index_(Self, x))

set_resolution ==
    /\ binding = "pygrandma"
    /\ \E x \in Resolutions : Plain("set_resolution", None, set_min_res_index_(Self, x))

set_use_singletons ==
    \E x \in Singletons : Plain("set_use_singletons", None, set_use_singletons_(Self, x))

set_metric == \E m \in MetricNames : Plain("set_metric", None, set_metric_(Self, m))

load_yaml_config ==
    /\ binding = "pygoko"
    /\ \E f \in YamlFiles : Plain("load_yaml_config", f, load_yaml_config_(Self, f))

CoverTree_fit ==
    /\ binding = "pygoko"
    /\ \E data \in {None} \cup {Some(d) : d \in FitData}, labels \in FitLabels :
           Fit("fit", <<data, labels>>, CoverTree_fit_(Self, data, labels, next_writer))

PyGrandma_fit ==
    /\ binding = "pygrandma"
    /\ \E data \in FitData, labels \in FitLabels :
           Fit("fit", <<Some(data), labels>>, PyGrandma_fit_(Self, data, labels, next_writer))

fit_yaml ==
    /\ binding = "pygrandma"
    /\ \E f \in YamlFiles : Fit("fit_yaml", f, fit_yaml_(Self, f, next_writer))

data_point == \E i \in PointIndexes : Plain("data_point", i, data_point_(Self, i))

top_scale == Plain("top_scale", None, top_scale_(Self))

bottom_scale == Plain("bottom_scale", None, bottom_scale_(Self))

layers == Handle("layers", None, layers_(Self))

layer == \E si \in ScaleIndexes : Handle("layer", si, layer_(Self, si))

node == \E a \in Addresses : Handle("node", a, node_(Self, a))

root == Handle("root", None, root_(Self))

knn == \E p \in QueryPoints, k \in Ks : Plain("knn", <<p, k>>, knn_(Self, p, k))

dry_insert ==
    \E p \in QueryPoints :
        LET step == dry_insert_(Self, p)
        IN  /\ Call("dry_insert", p, step)
            /\ probe' = IF step.outcome # "Ok" THEN probe
                        ELSE IF is_none(probe)
                        THEN Some([point |-> p, path |-> step.value, calls |-> 1])
                        ELSE IF unwrap(probe).point = p
                        THEN Some([unwrap(probe) EXCEPT !.calls = 2])
                        ELSE probe
            /\ UNCHANGED <<handles, next_writer>>

kl_div_dirichlet == Handle("kl_div_dirichlet", None, kl_div_dirichlet_(Self, 1, 1, 2))

kl_div_dirichlet_basestats ==
    Plain("kl_div_dirichlet_basestats", None,
          kl_div_dirichlet_basestats_(Self, 1, 1, 2, 2, 2))

\* IterLayers: the next layer of the iteration, or nothing once every scale
\* index has been given.
IterLayers_next_(it) ==
    IF it.index < Len(it.scale_indexes)
    THEN [iter  |-> [it EXCEPT !.index = @ + 1],
          value |-> Some([kind        |-> "PyLayer",
                          parameters  |-> it.parameters,
                          tree        |-> it.tree,
                          scale_index |-> it.scale_indexes[it.index + 1]])]
    ELSE [iter |-> it, value |-> None]

\* The host advances an iterator it holds; it does not keep the layer.
IterLayers_next ==
    \E i \in DOMAIN handles :
        /\ alive
        /\ handles[i].kind = "IterLayers"
        /\ handles' = [handles EXCEPT ![i] = IterLayers_next_(handles[i]).iter]
        /\ last' = [op |-> "IterLayers.next", arg |-> i, outcome |-> "Ok",
                    value |-> IterLayers_next_(handles[i]).value]
        /\ UNCHANGED <<binding, builder, temp_point_cloud, writer, reader, metric,
                       alive, next_writer, probe, keep>>

Start ==
    /\ binding \in {"pygoko", "pygrandma"}
    /\ new(binding)
    /\ handles = <<>>
    /\ last = [op |-> "new", arg |-> None, outcome |-> "Ok", value |-> None]
    /\ alive = TRUE
    /\ next_writer = 1
    /\ probe = None

Init == Start /\ keep = MaxHandles

\* A host that keeps one handle more and calls only the methods that build
\* trees, hand out iterators and advance them.
InitIter == Start /\ keep = MaxHandles + 1

NextIter ==
    \/ load_yaml_config
    \/ CoverTree_fit
    \/ PyGrandma_fit
    \/ fit_yaml
    \/ top_scale
    \/ layers
    \/ IterLayers_next

SpecIter == InitIter /\ [][NextIter]_vars

Next ==
    \/ set_scale_base
    \/ set_leaf_cutoff
    \/ set_cutoff
    \/ set_min_res_index
    \/ set_resolution
    \/ set_use_singletons
    \/ set_metric
    \/ load_yaml_config
    \/ CoverTree_fit
    \/ PyGrandma_fit
    \/ fit_yaml
    \/ data_point
    \/ top_scale
    \/ bottom_scale
    \/ layers
    \/ layer
    \/ node
    \/ root
    \/ knn
    \/ dry_insert
    \/ kl_div_dirichlet
    \/ kl_div_dirichlet_basestats
    \/ IterLayers_next

Spec == Init /\ [][Next]_vars

(***************************************************************************)
(* Properties.                                                             *)
(***************************************************************************)
SelfNext == [builder |-> builder', temp_point_cloud |-> temp_point_cloud',
             writer |-> writer', reader |-> reader', metric |-> metric']

FitOps == {"fit", "fit_yaml"}
BuildErrors == {"ConfigurationError", "DataError"}
QueryOps == {"knn", "dry_insert", "layers", "layer", "node", "root", "data_point",
             "top_scale", "bottom_scale", "kl_div_dirichlet",
             "kl_div_dirichlet_basestats"}
Fitted == is_some(reader)
NeverFitted == next_writer = 1

\* C1: after node(address) on a fitted object with an address that names no
\* node of the tree, the call has ended with an error result returned to the
\* host; it has not panicked.
C1_MissingNodeIsAnError ==
    (/\ last.op = "node"
     /\ Fitted
     /\ is_none(get_node_and(unwrap(reader), last.arg)))
    => last.outcome = "Err"

\* C2: after layer(scale_index) on a fitted object with a scale index outside
\* [bottom_scale(), top_scale()], the call has not returned a layer handle.
C2_LayerOutOfRangeFails ==
    (/\ last.op = "layer"
     /\ Fitted
     /\ \/ last.arg < scale_range(unwrap(reader)).start
        \/ last.arg > scale_range(unwrap(reader)).end - 1)
    => last.outcome # "Ok"

\* C3: a fit or fit_yaml whose build step fails (invalid configuration, empty
\* or mislabelled cloud) leaves the reader field and every handle as they
\* were before the call.
C3_FailedBuildKeepsReader ==
    [][(/\ last'.op \in FitOps
        /\ last'.outcome = "Panic"
        /\ last'.value \in BuildErrors)
       => (reader' = reader /\ handles' = handles)]_vars

C3_Witness ==
    /\ last.op \in FitOps
    /\ last.outcome = "Panic"
    /\ last.value \in BuildErrors
    /\ Fitted
    /\ handles # <<>>

\* C4 as claimed: once the object has a writer, no call replaces it.
C4_WriterNeverReplaced == [][is_some(writer) => writer' = writer]_vars

\* C4 as amended: the writer changes only in a successful fit that takes a
\* builder the object holds, or in a successful fit_yaml; either leaves the
\* object without a builder, so each builder is consumed at most once.
C4_WriterReplacedOnlyByConsumingFit ==
    [][writer' # writer
       => (/\ last'.outcome = "Ok"
           /\ is_none(builder')
           /\ \/ last'.op = "fit" /\ is_some(builder)
              \/ last'.op = "fit_yaml")]_vars

C4_Witness ==
    /\ last.op \in FitOps
    /\ last.outcome = "Ok"
    /\ unwrap(writer).id = 2

\* C5: every writer and every reader the object stores has the history build,
\* generate_summaries, add_plugin (diagonal Gaussian), add_plugin (Dirichlet):
\* no add_plugin failed for want of summaries, and the reader was taken after
\* both plugins were attached.
FitLog == <<<<"build">>, <<"generate_summaries">>,
            <<"add_plugin", "DiagGaussian">>, <<"add_plugin", "Dirichlet">>>>

C5_WriterOperationsInOrder ==
    /\ is_some(writer) => unwrap(writer).log = FitLog
    /\ is_some(reader) =>
           /\ unwrap(reader).log = FitLog
           /\ unwrap(reader).summaries
           /\ unwrap(reader).plugins = {"DiagGaussian", "Dirichlet"}

C5_Witness ==
    /\ last.op = "fit_yaml"
    /\ last.outcome = "Ok"
    /\ is_some(reader)
    /\ unwrap(writer).id = 2

\* C6: a successful fit or fit_yaml leaves every handle issued before it as it
\* was, still referring to the reader it was created from and not to the
\* object's new reader.
C6_HandlesKeepTheirSnapshot ==
    [][(last'.op \in FitOps /\ last'.outcome = "Ok")
       => \A i \in DOMAIN handles :
              /\ i \in DOMAIN handles'
              /\ handles'[i] = handles[i]
              /\ handles'[i].tree # unwrap(reader')]_vars

C6_Witness ==
    /\ last.op \in FitOps
    /\ last.outcome = "Ok"
    /\ handles # <<>>
    /\ handles[1].tree # unwrap(reader)

\* C7: a node(address) that fails leaves builder, writer and reader as they
\* were, and every query gives after it what it gave before it.
C7_FailedNodeChangesNothing ==
    [][(last'.op = "node" /\ last'.outcome # "Ok")
       => /\ builder' = builder /\ writer' = writer /\ reader' = reader
          /\ \A a \in Addresses :
                 /\ node_(SelfNext, a).outcome = node_(Self, a).outcome
                 /\ node_(SelfNext, a).value = node_(Self, a).value
          /\ \A p \in QueryPoints :
                 /\ dry_insert_(SelfNext, p).outcome = dry_insert_(Self, p).outcome
                 /\ dry_insert_(SelfNext, p).value = dry_insert_(Self, p).value
          /\ top_scale_(SelfNext).value = top_scale_(Self).value]_vars

C7_Witness ==
    /\ last.op = "node"
    /\ last.outcome = "Panic"
    /\ Fitted
    /\ alive

\* C8: a query on an object that has never been fitted ends with a failure or
\* an absent value returned to the host; it does not panic.
C8_UnfittedQueryDoesNotPanic ==
    (last.op \in QueryOps /\ NeverFitted) => last.outcome # "Panic"

\* C9: the reader handed to the tracker and the reader in the returned
\* object's tree field are the same snapshot of the same writer.
C9_TrackerBoundToOneSnapshot ==
    (last.op = "kl_div_dirichlet" /\ last.outcome = "Ok")
    => last.value.hkl.reader = last.value.tree

C9_Witness ==
    /\ last.op = "kl_div_dirichlet"
    /\ last.outcome = "Ok"
    /\ unwrap(writer).id = 2

\* C10: a query changes no field of the object and no handle issued before
\* it, and a dry_insert with the point of an earlier one, no fit in between,
\* returns the same path.
C10_QueriesChangeNothing ==
    [][(last'.op \in QueryOps \ {"kl_div_dirichlet", "kl_div_dirichlet_basestats"})
       => /\ SelfNext = Self
          /\ \A i \in DOMAIN handles : i \in DOMAIN handles' /\ handles'[i] = handles[i]
          /\ (/\ last'.op = "dry_insert"
              /\ last'.outcome = "Ok"
              /\ is_some(probe)
              /\ unwrap(probe).point = last'.arg)
             => last'.value = unwrap(probe).path]_vars

C10_Witness ==
    /\ last.op = "dry_insert"
    /\ last.outcome = "Ok"
    /\ is_some(probe)
    /\ unwrap(probe).calls = 2
    /\ handles # <<>>

-----------------------------------------------------------------------------
IsIterLayers(h) == h.kind = "IterLayers"

\* C11: every successful layers() returns a fresh iterator at the first
\* element over the whole finite list of the reader's scale indexes, the same
\* list as any iterator already held over that reader, whatever its position;
\* the call changes no held iterator.  Advancing an iterator, also past its
\* end, changes only the position of that iterator: the reader, the writer
\* and every other handle stay as they are, and the position never passes the
\* end of the list.
C11_LayersIsFreshAndRestartable ==
    [][/\ (last'.op = "layers" /\ last'.outcome = "Ok") =>
            /\ last'.value.index = 0
            /\ last'.value.tree = unwrap(reader')
            /\ last'.value.scale_indexes = reader_layers(unwrap(reader'))
            /\ reader' = reader
            /\ \A i \in DOMAIN handles :
                   /\ handles'[i] = handles[i]
                   /\ (IsIterLayers(handles[i]) /\ handles[i].tree = unwrap(reader)) =>
                          last'.value.scale_indexes = handles[i].scale_indexes
       /\ last'.op = "IterLayers.next" =>
            /\ reader' = reader
            /\ writer' = writer
            /\ builder' = builder
            /\ Len(handles') = Len(handles)
            /\ \A j \in DOMAIN handles : j # last'.arg => handles'[j] = handles[j]
            /\ handles'[last'.arg].scale_indexes = handles[last'.arg].scale_indexes
            /\ handles'[last'.arg].tree = handles[last'.arg].tree
            /\ handles'[last'.arg].index <= Len(handles[last'.arg].scale_indexes)
            /\ is_none(last'.value) <=>
                   handles[last'.arg].index = Len(handles[last'.arg].scale_indexes)
      ]_vars

\* Two iterators over the current reader are held, the first exhausted and
\* the second untouched, and a later layers() has just returned a third one.
C11_Witness ==
    /\ Len(handles) = 2
    /\ IsIterLayers(handles[1]) /\ IsIterLayers(handles[2])
    /\ Fitted
    /\ handles[1].tree = unwrap(reader) /\ handles[2].tree = unwrap(reader)
    /\ Len(handles[1].scale_indexes) > 1
    /\ handles[1].index = Len(handles[1].scale_indexes)
    /\ handles[2].index = 0
    /\ last.op = "layers" /\ last.outcome = "Ok"

-----------------------------------------------------------------------------
BuilderSetterOps == {"set_scale_base", "set_leaf_cutoff", "set_cutoff", "set_min_res_index", "set_resolution", "set_use_singletons"}

SetterOps == BuilderSetterOps \cup {"set_metric"}

\* C12: a configuration setter called while the object holds no builder
\* (the builder was consumed by fit or fit_yaml) does not return normally,
\* and leaves writer and reader as they were.  A setter never changes whether
\* a builder is held, so the builder is absent after the call exactly when it
\* was absent before it.
C12_LateSetterFails ==
    [][(last'.op \in SetterOps /\ is_none(builder')) =>
           /\ last'.outcome # "Ok"
           /\ writer' = writer
           /\ reader' = reader
      ]_vars

-----------------------------------------------------------------------------
\* C13: between any two calls, failed calls included, the object holds a
\* reader exactly when it holds a writer, and the reader it holds is the
\* snapshot of the writer it holds: it carries that writer's identity and is
\* what that writer's reader() gives.
C13_ReaderBelongsToWriter ==
    /\ is_some(reader) <=> is_some(writer)
    /\ is_some(reader) =>
           /\ unwrap(reader).writer_id = unwrap(writer).id
           /\ unwrap(reader) = writer_reader(unwrap(writer))

\* The writer has been replaced once and a later fit has failed.
C13_Witness ==
    /\ Fitted
    /\ unwrap(writer).id = 2
    /\ last.op \in FitOps
    /\ last.outcome = "Panic"
    /\ alive

-----------------------------------------------------------------------------
NoKnownPointCloud(l) == l.op = "fit" /\ l.outcome = "Panic" /\ l.value = "No known point_cloud"

\* C14: in pygoko a fit without data, when load_yaml_config has left no
\* point cloud, fails with 'No known point_cloud' and changes no field of the
\* object.  If the object held a builder, it still holds it: each setter
\* still returns normally, and a fit with data does after the failure what
\* it would have done before it.
C14_FitWithoutCloudTakesNothing ==
    [][NoKnownPointCloud(last') =>
           /\ binding = "pygoko"
           /\ is_none(last'.arg[1])
           /\ is_none(temp_point_cloud)
           /\ SelfNext = Self
           /\ is_some(builder) =>
                  /\ \A x \in ScaleBases : set_scale_base_(SelfNext, x).outcome = "Ok"
                  /\ \A x \in Cutoffs : set_leaf_cutoff_(SelfNext, x).outcome = "Ok"
                  /\ \A x \in Resolutions : set_min_res_index_(SelfNext, x).outcome = "Ok"
                  /\ \A x \in Singletons : set_use_singletons_(SelfNext, x).outcome = "Ok"
           /\ \A d \in FitData, labels \in FitLabels :
                  CoverTree_fit_(SelfNext, Some(d), labels, next_writer') = CoverTree_fit_(Self, Some(d), labels, next_writer)
      ]_vars

\* The failed fit has happened on an object that holds a builder with which
\* a fit with data builds the tree.
C14_Witness ==
    /\ NoKnownPointCloud(last)
    /\ alive
    /\ is_some(builder)
    /\ is_none(writer)
    /\ CoverTree_fit_(Self, Some(Array(TRUE, <<0, 1, 3>>)), None, next_writer).outcome = "Ok"

-----------------------------------------------------------------------------
BuildFailedInFit(l) == l.op = "fit" /\ is_some(l.arg[1]) /\ l.outcome = "Panic" /\ l.value \in BuildErrors

FitWithData(self, d, labels, id) == IF binding = "pygoko" THEN CoverTree_fit_(self, Some(d), labels, id) ELSE PyGrandma_fit_(self, d, labels, id)

SetTooLate(step) == step.outcome = "Panic" /\ step.value = "Set too late"

\* C15 as stated: after a fit with data whose build fails, builder, writer
\* and reader are all absent.
C15_FailedBuildLeavesNothing ==
    [][BuildFailedInFit(last') =>
           /\ is_none(builder')
           /\ is_none(writer')
           /\ is_none(reader')
      ]_vars

\* C15, amended: a fit with data whose build fails leaves the object without
\* a builder, and with the writer and reader it had before; while the object
\* holds no builder, each of the four builder setters fails with 'Set too
\* late' and every fit with data fails; a builder comes back only through
\* load_yaml_config (pygoko), and while no builder is held the writer changes
\* only through fit_yaml (pygrandma).
C15_FailedBuildTakesOnlyTheBuilder ==
    [][/\ BuildFailedInFit(last') =>
            /\ is_some(builder)
            /\ is_none(builder')
            /\ writer' = writer
            /\ reader' = reader
       /\ is_none(builder) =>
            /\ \A x \in ScaleBases : SetTooLate(set_scale_base_(Self, x))
            /\ \A x \in Cutoffs : SetTooLate(set_leaf_cutoff_(Self, x))
            /\ \A x \in Resolutions : SetTooLate(set_min_res_index_(Self, x))
            /\ \A x \in Singletons : SetTooLate(set_use_singletons_(Self, x))
            /\ \A d \in FitData, labels \in FitLabels :
                   FitWithData(Self, d, labels, next_writer).outcome = "Panic"
            /\ is_some(builder') =>
                   binding = "pygoko" /\ last'.op = "load_yaml_config" /\ last'.outcome = "Ok"
            /\ writer' # writer =>
                   binding = "pygrandma" /\ last'.op = "fit_yaml" /\ last'.outcome = "Ok"
      ]_vars

\* A build has just failed in a fit with data on an object that an earlier
\* fit had given a writer and a reader.
C15_Witness ==
    /\ BuildFailedInFit(last)
    /\ alive
    /\ is_none(builder)
    /\ is_some(writer)
    /\ Fitted

====
